---- MODULE Spec2Model ----
(***************************************************************************)
(* A model of the GRC risk dashboard: the CSV record store of helpers.py   *)
(* (load_df, save_record), its pure helpers (score_risk, auto_assign,      *)
(* build_matrix) and the IOC save paths of app.py.                         *)
(*                                                                         *)
(* The store is the file risks.csv.  A DataFrame is modelled as a frame    *)
(* [cols, rows] of typed cells, the file as a frame of text cells;         *)
(* to_csv and read_csv are the conversions between the two.                *)
(***************************************************************************)
EXTENDS Integers, Sequences, FiniteSets, TLC

VARIABLES
    file,     \* risks.csv: [exists, cols, rows], rows of text cells
    pc,       \* per session: where its save_record call stands
    df,       \* per session: the local df of save_record (the loaded table)
    record,   \* per session: the record handed to save_record
    clock,    \* the wall clock read by pd.Timestamp.now()
    uuids,    \* how many uuid4() values have been drawn
    call,     \* a call of a pure helper: its operation, argument and result
    page      \* the page of one browser session: its widgets and script run

vars == <<file, pc, df, record, clock, uuids, call, page>>

-----------------------------------------------------------------------------
(* Bounds of the model. *)

\* Total number of records the sessions build (and try to save).
MaxSaves == 3

\* Longest table handed to build_matrix, in rows.
MaxTableRows == 2

\* Longest description handed to auto_assign, in phrases.
MaxPhrases == 3

\* How far below 0 and above 100 the reputation scores tried reach.
ScoreMargin == 5

\* The two browser sessions whose scripts may call save_record concurrently.
Sessions == {"s1", "s2"}

-----------------------------------------------------------------------------
(* Cell values of a DataFrame and of a record dictionary. *)

PyInt(n)     == [t |-> "int",   n |-> n, s |-> ""]
\* a finite float, n counted in tenths: PyFloat(37) is 3.7, PyFloat(30) is 3.0
PyFloat(n)   == [t |-> "float", n |-> n, s |-> ""]
PyStr(s)     == [t |-> "str",   n |-> 0, s |-> s]
\* a pd.Timestamp object taken when the clock read n
Timestamp(n) == [t |-> "ts",    n |-> n, s |-> ""]
NaN          == [t |-> "nan",   n |-> 0, s |-> ""]
\* float("inf")
Inf          == [t |-> "inf",   n |-> 0, s |-> ""]
\* Python None
None         == [t |-> "none",  n |-> 0, s |-> ""]

\* Elements of a sequence, and the subsequence of those satisfying a test.
Range(seq) == {seq[k] : k \in DOMAIN seq}

RECURSIVE Without(_, _)
Without(seq, S) ==
    IF seq = <<>> THEN <<>>
    ELSE IF Head(seq) \in S THEN Without(Tail(seq), S)
         ELSE <<Head(seq)>> \o Without(Tail(seq), S)

-----------------------------------------------------------------------------
(* helpers.py: the column list load_df gives an empty table. *)

LoadDfColumns ==
    << "risk_id", "risk_name", "risk_description",
       "likelihood", "impact", "risk_score",
       "risk_cell", "owner", "mitigation", "timestamp" >>

-----------------------------------------------------------------------------
(* DataFrame.to_csv(index=False): every cell becomes text. *)

\* The text of a float counted in tenths: 30 is "3.0", 37 is "3.7".
FloatText(n) == ToString(n \div 10) \o "." \o ToString(n % 10)

\* str(pd.Timestamp) of the instant the clock read n.
TimestampText(n) == "2026-11-04 17:36:00.00000" \o ToString(n)

FormatCell(c) ==
    CASE c.t = "int"   -> ToString(c.n)
      [] c.t = "float" -> FloatText(c.n)
      [] c.t = "str"   -> c.s
      [] c.t = "ts"    -> TimestampText(c.n)
      [] c.t = "inf"   -> "inf"
      [] OTHER         -> ""          \* NaN and None: na_rep is ""

ToCsv(frame) ==
    [exists |-> TRUE,
     cols   |-> frame.cols,
     rows   |-> [k \in DOMAIN frame.rows |->
                   [c \in Range(frame.cols) |-> FormatCell(frame.rows[k][c])]]]

-----------------------------------------------------------------------------
(* pd.read_csv: the dtype of a column is inferred from all its texts. *)

\* The integers and floats whose text the model's files can hold.
IntValues   == 0 .. (5 * 5)
FloatValues == 0 .. (10 * 5 * 5)
IntTexts    == {ToString(n) : n \in IntValues}
FloatTexts  == {FloatText(n) : n \in FloatValues}

ParseInt(s)   == CHOOSE n \in IntValues : ToString(n) = s
ParseFloat(s) == IF s \in IntTexts THEN 10 * ParseInt(s)
                 ELSE CHOOSE n \in FloatValues : FloatText(n) = s

\* "int64": every text an integer; "float64": every text a number or empty
\* (an empty text is NaN, which an int64 column cannot hold); else "object".
ColumnKind(texts) ==
    IF texts # {} /\ texts \subseteq IntTexts THEN "int64"
    ELSE IF texts \subseteq (IntTexts \cup FloatTexts \cup {""}) THEN "float64"
    ELSE "object"

ParseCell(kind, s) ==
    IF s = "" THEN NaN
    ELSE CASE kind = "int64"   -> PyInt(ParseInt(s))
           [] kind = "float64" -> PyFloat(ParseFloat(s))
           [] OTHER            -> PyStr(s)

ReadCsv(f) ==
    LET kind(c) == ColumnKind({f.rows[k][c] : k \in DOMAIN f.rows})
    IN  [cols |-> f.cols,
         rows |-> [k \in DOMAIN f.rows |->
                     [c \in Range(f.cols) |-> ParseCell(kind(c), f.rows[k][c])]]]

-----------------------------------------------------------------------------
(* helpers.py: load_df and the two halves of save_record. *)

\* A load_df whose empty table has no columns at all.
LoadDfNoColumns(f) ==
    IF f.exists THEN ReadCsv(f)
    ELSE [cols |-> <<>>, rows |-> <<>>]

NoFile == [exists |-> FALSE, cols |-> <<>>, rows |-> <<>>]

LoadDf(f) ==
    IF f.exists THEN ReadCsv(f)
    ELSE [cols |-> LoadDfColumns, rows |-> <<>>]

\* pd.DataFrame([record]): one row, the columns in the dictionary's key order.
NewDf(rec) == [cols |-> rec.cols, rows |-> <<rec.cells>>]

\* pd.concat([a, b], ignore_index=True): a's columns, then b's new ones; the
\* rows of a, then of b; a cell of a column a row lacks is NaN.
Concat(a, b) ==
    LET cols == a.cols \o Without(b.cols, Range(a.cols))
        fill(row) == [c \in Range(cols) |->
                        IF c \in DOMAIN row THEN row[c] ELSE NaN]
        rows == a.rows \o b.rows
    IN  [cols |-> cols, rows |-> [k \in DOMAIN rows |-> fill(rows[k])]]

\* A save_record that puts the new record first.
SaveRecordWritePrepend(loaded, rec) == ToCsv(Concat(NewDf(rec), loaded))

\* What save_record writes, given the table it loaded.
SaveRecordWrite(loaded, rec) == ToCsv(Concat(loaded, NewDf(rec)))

-----------------------------------------------------------------------------
(* helpers.py: score_risk. *)

\* A score that adds where it should multiply.
ScoreRiskSum(likelihood, impact) == likelihood + impact

ScoreRisk(likelihood, impact) == likelihood * impact

-----------------------------------------------------------------------------
(* helpers.py: build_matrix. *)

\* Python's int(x): the integer, or the exception it raises.
Value(n)  == [exc |-> "", n |-> n]
Raise(e)  == [exc |-> e,  n |-> 0]

\* int() of a float truncates toward zero; n counts tenths.
Truncate(n) == IF n >= 0 THEN n \div 10 ELSE 0 - ((0 - n) \div 10)

PythonInt(c) ==
    CASE c.t = "int"   -> Value(c.n)
      [] c.t = "float" -> Value(Truncate(c.n))
      [] c.t = "nan"   -> Raise("ValueError")
      [] c.t = "inf"   -> Raise("OverflowError")
      [] c.t = "str"   -> IF c.s \in IntTexts THEN Value(ParseInt(c.s))
                          ELSE Raise("ValueError")
      [] OTHER         -> Raise("TypeError")     \* None, a Timestamp

\* int(row[column]): a row without the column raises KeyError.
IntOfField(row, column) ==
    IF column \in DOMAIN row THEN PythonInt(row[column])
    ELSE Raise("KeyError")

\* The exceptions the loop body's except clause names.
CaughtExceptions == {"ValueError", "KeyError", "TypeError"}

\* np.zeros((5, 5), dtype=int), rows and columns numbered from 0.
Zeros == [r \in 0..4 |-> [c \in 0..4 |-> 0]]

\* The body of the loop for one row: the matrix after it, or the exception
\* that leaves the loop.
MatrixAfterRow(matrix, row) ==
    LET l == IntOfField(row, "likelihood")
        i == IF l.exc = "" THEN IntOfField(row, "impact") ELSE l
        likelihood == l.n - 1
        impact == i.n - 1
    IN  IF i.exc # ""
        THEN IF i.exc \in CaughtExceptions
             THEN [raised |-> "", matrix |-> matrix]
             ELSE [raised |-> i.exc, matrix |-> matrix]
        ELSE IF 0 <= likelihood /\ likelihood < 5 /\ 0 <= impact /\ impact < 5
             THEN [raised |-> "",
                   matrix |-> [matrix EXCEPT ![4 - impact][likelihood] = @ + 1]]
             ELSE [raised |-> "", matrix |-> matrix]

RECURSIVE MatrixFrom(_, _, _)
MatrixFrom(rows, k, matrix) ==
    IF k > Len(rows) THEN [raised |-> "", matrix |-> matrix]
    ELSE LET step == MatrixAfterRow(matrix, rows[k])
         IN  IF step.raised # "" THEN step
             ELSE MatrixFrom(rows, k + 1, step.matrix)

\* build_matrix(df): [raised, matrix]; raised is "" when it returns matrix.
BuildMatrix(frame) == MatrixFrom(frame.rows, 1, Zeros)

\* The sum of the 25 cells of a grid.
RECURSIVE SumTo(_, _)
SumTo(f, n) == IF n < 0 THEN 0 ELSE f[n] + SumTo(f, n - 1)
MatrixSum(matrix) == SumTo([r \in 0..4 |-> SumTo(matrix[r], 4)], 4)

-----------------------------------------------------------------------------
(* helpers.py: KEYWORD_MAP and auto_assign.  A text is a sequence of pieces *)
(* of characters; a phrase occurs in it as a contiguous run of pieces.      *)

\* The table ordered by severity instead: ransomware first.
KeywordMapBySeverity ==
    << [keyword |-> <<"ransomware">>,             values |-> <<5, 5>>],
       [keyword |-> <<"data", " ", "breach">>,    values |-> <<4, 5>>],
       [keyword |-> <<"phishing">>,               values |-> <<3, 4>>],
       [keyword |-> <<"insider", " ", "threat">>, values |-> <<3, 4>>],
       [keyword |-> <<"system", " ", "failure">>, values |-> <<2, 3>>] >>

KeywordMap ==
    << [keyword |-> <<"data", " ", "breach">>,    values |-> <<4, 5>>],
       [keyword |-> <<"phishing">>,               values |-> <<3, 4>>],
       [keyword |-> <<"ransomware">>,             values |-> <<5, 5>>],
       [keyword |-> <<"insider", " ", "threat">>, values |-> <<3, 4>>],
       [keyword |-> <<"system", " ", "failure">>, values |-> <<2, 3>>] >>

\* str.lower() of one piece.
LowerPiece(a) ==
    CASE a = "Ransomware"    -> "ransomware"
      [] a = "DATA"          -> "data"
      [] a = "Breach"        -> "breach"
      [] a = "We suffered a" -> "we suffered a"
      [] OTHER               -> a

Lower(text) == [k \in DOMAIN text |-> LowerPiece(text[k])]

\* str.strip(): whitespace pieces at both ends go.
RECURSIVE LStrip(_)
LStrip(text) ==
    IF text # <<>> /\ Head(text) = " " THEN LStrip(Tail(text)) ELSE text

RECURSIVE RStrip(_)
RStrip(text) ==
    IF text # <<>> /\ text[Len(text)] = " "
    THEN RStrip(SubSeq(text, 1, Len(text) - 1)) ELSE text

Strip(text) == RStrip(LStrip(text))

\* keyword in desc
Contains(desc, keyword) ==
    \E k \in 1 .. (Len(desc) - Len(keyword) + 1) :
        SubSeq(desc, k, k + Len(keyword) - 1) = keyword

\* The loop over KEYWORD_MAP.items(), from entry k on: the first hit's
\* values, or <<>> for None.
RECURSIVE AssignFrom(_, _)
AssignFrom(desc, k) ==
    IF k > Len(KeywordMap) THEN <<>>
    ELSE IF Contains(desc, KeywordMap[k].keyword) THEN KeywordMap[k].values
         ELSE AssignFrom(desc, k + 1)

AutoAssign(description) == AssignFrom(Strip(Lower(description)), 1)

-----------------------------------------------------------------------------
(* app.py: the reputation score buckets and the record builder. *)

\* Buckets whose limits are exclusive: 80 itself falls into (4,4).
MapScoreExclusive(score) ==
    IF score > 80 THEN <<5, 5>>
    ELSE IF score > 60 THEN <<4, 4>>
    ELSE IF score > 40 THEN <<3, 3>>
    ELSE IF score > 20 THEN <<2, 2>>
    ELSE <<1, 1>>

MapScoreToLiImpact(score) ==
    IF score >= 80 THEN <<5, 5>>
    ELSE IF score >= 60 THEN <<4, 4>>
    ELSE IF score >= 40 THEN <<3, 3>>
    ELSE IF score >= 20 THEN <<2, 2>>
    ELSE <<1, 1>>

\* What check_abuseipdb returns for an ip: a result carrying the key
\* "abuseConfidenceScore", or one carrying "error" instead.
ScoreResult(ip, score) == [ip |-> ip, hasScore |-> TRUE,  score |-> score]
ErrorResult(ip)        == [ip |-> ip, hasScore |-> FALSE, score |-> 0]

\* The first result of ip_results for this ip that carries a score, as the
\* for loop with its break finds it; <<>> when there is none.
RECURSIVE FirstScore(_, _)
FirstScore(ip_results, ioc_value) ==
    IF ip_results = <<>> THEN <<>>
    ELSE IF Head(ip_results).ip = ioc_value /\ Head(ip_results).hasScore
         THEN <<Head(ip_results).score>>
         ELSE FirstScore(Tail(ip_results), ioc_value)

\* The (likelihood, impact) the save loops give one selected IOC.
ChooseLikelihoodImpact(ioc_type, ioc_value, ip_results) ==
    IF ioc_type = "IPs"
    THEN LET score == FirstScore(ip_results, ioc_value)
         IN  IF score = <<>> THEN <<3, 3>>
             ELSE MapScoreToLiImpact(score[1])
    ELSE <<3, 3>>

\* The keys of the record dictionary, in the order the literal gives them.
RecordColumns ==
    << "risk_id", "risk_name", "risk_description",
       "likelihood", "impact", "risk_score",
       "risk_cell", "owner", "mitigation", "timestamp" >>

\* str(uuid.uuid4()): the n-th identifier drawn, each one fresh.
UuidText(n) == "uuid-" \o ToString(n)

\* A record builder that stores the likelihood as the score.
CreateRiskRecordUnscored(ioc_type, ioc_value, context_snippet, likelihood, impact, uuid, now) ==
    [cols  |-> RecordColumns,
     cells |-> [risk_id          |-> PyStr(UuidText(uuid)),
                risk_name        |-> PyStr(ioc_type \o ": " \o ioc_value),
                risk_description |-> PyStr(context_snippet),
                likelihood       |-> PyInt(likelihood),
                impact           |-> PyInt(impact),
                risk_score       |-> PyInt(likelihood),
                risk_cell        |-> PyStr(ToString(likelihood) \o "x"
                                           \o ToString(impact)),
                owner            |-> PyStr("AutoDetector"),
                mitigation       |-> PyStr(""),
                timestamp        |-> Timestamp(now)]]

\* create_risk_record_from_ioc; uuid and now are what uuid4() and
\* pd.Timestamp.now() give.  The snippet is at most 240 characters long, so
\* its slice [:400] is the snippet itself.
CreateRiskRecordFromIoc(ioc_type, ioc_value, context_snippet, likelihood, impact, uuid, now) ==
    [cols  |-> RecordColumns,
     cells |-> [risk_id          |-> PyStr(UuidText(uuid)),
                risk_name        |-> PyStr(ioc_type \o ": " \o ioc_value),
                risk_description |-> PyStr(context_snippet),
                likelihood       |-> PyInt(likelihood),
                impact           |-> PyInt(impact),
                risk_score       |-> PyInt(ScoreRisk(likelihood, impact)),
                risk_cell        |-> PyStr(ToString(likelihood) \o "x"
                                           \o ToString(impact)),
                owner            |-> PyStr("AutoDetector"),
                mitigation       |-> PyStr(""),
                timestamp        |-> Timestamp(now)]]

-----------------------------------------------------------------------------
(* app.py: the uploaded log and what the save loops read from it. *)

\* An uploaded log and the IOCs extract_iocs finds in it (each list sorted,
\* no duplicates).  It is shorter than 120 characters.
UploadedLog ==
    [text    |-> "Failed login from 10.0.0.5 and 10.0.0.9; GET http://evil.example/a",
     IPs     |-> <<"10.0.0.5", "10.0.0.9">>,
     URLs    |-> <<"http://evil.example/a">>,
     Domains |-> <<"evil.example">>,
     Hashes  |-> <<>>,
     Emails  |-> <<>>]

IocTypes == <<"IPs", "URLs", "Domains", "Hashes", "Emails">>

\* The (type, value) pairs the multiselects offer.
SelectableIocs ==
    UNION {{<<t, UploadedLog[t][k]>> : k \in DOMAIN UploadedLog[t]} :
             t \in Range(IocTypes)}

\* to_save: what the user chose in the multiselects, in the order of the
\* types; here the second IP and the URL.
ToSave == << <<"IPs", UploadedLog.IPs[2]>>, <<"URLs", UploadedLog.URLs[1]>> >>

\* Every value extracted from the log occurs in its text (a domain inside
\* its URL), so content.find gives a position.
Occurs(content, ioc_value) ==
    \E t \in Range(IocTypes) : ioc_value \in Range(content[t])

\* content[max(0, pos - 120) : min(len, pos + 120)]: for a log shorter than
\* 120 characters the window is the whole text.
Snippet(content, ioc_type, ioc_value) ==
    IF Occurs(content, ioc_value) THEN content.text
    ELSE "Auto-detected " \o ioc_type \o " " \o ioc_value

\* Reputation scores the lookup reports in the store's runs.
SampleScores == {85}

\* What check_abuseipdb may give for one ip.
IpResults(ip, scores) ==
    {ErrorResult(ip)} \cup {ScoreResult(ip, sc) : sc \in scores}

\* ip_results of one script run: empty without an API key, else one result
\* per extracted IP, in the order of the IP list.
IpResultsChoices(scores) ==
    {<<>>} \cup
    {<<r1, r2>> : r1 \in IpResults(UploadedLog.IPs[1], scores),
                  r2 \in IpResults(UploadedLog.IPs[2], scores)}

-----------------------------------------------------------------------------
(* The store: sessions running the save loops, save_record in two steps. *)

NoFrame  == [cols |-> <<>>, rows |-> <<>>]
NoRecord == [cols |-> <<>>, cells |-> <<>>]
NoCall   == [op |-> "none", arg |-> <<>>, ret |-> <<>>, done |-> FALSE]
\* The page before any input: nothing selected, the checkbox at its default
\* (value=False), the button not pressed, the script at rest.
NoPage   ==
    [run |-> "waiting", clicked |-> FALSE, auto_save |-> FALSE,
     to_save |-> <<>>, last |-> "none", base |-> 0, inputs |-> 0]

Init ==
    /\ file = NoFile
    /\ pc = [s \in Sessions |-> "idle"]
    /\ df = [s \in Sessions |-> NoFrame]
    /\ record = [s \in Sessions |-> NoRecord]
    /\ clock = 0
    /\ uuids = 0
    /\ call = NoCall
    /\ page = NoPage

\* One pass of a save loop up to the first line of save_record: choose the
\* likelihood and impact, build the record, call save_record, which loads.
SaveIteration(s, ioc, ip_results) ==
    LET li  == ChooseLikelihoodImpact(ioc[1], ioc[2], ip_results)
        rec == CreateRiskRecordFromIoc(ioc[1], ioc[2],
                   Snippet(UploadedLog, ioc[1], ioc[2]),
                   li[1], li[2], uuids + 1, clock)
    IN  /\ pc[s] = "idle"
        /\ uuids < MaxSaves
        /\ record' = [record EXCEPT ![s] = rec]
        /\ df' = [df EXCEPT ![s] = LoadDf(file)]
        /\ pc' = [pc EXCEPT ![s] = "loaded"]
        /\ uuids' = uuids + 1
        /\ clock' = clock + 1
        /\ UNCHANGED <<file, call, page>>

\* The loop of the "Save selected IOCs as risks" button.
ButtonSave(s) ==
    \E ioc \in Range(ToSave), ip_results \in IpResultsChoices(SampleScores) :
        SaveIteration(s, ioc, ip_results)

\* The loop of the auto-save checkbox.
AutoSave(s) ==
    \E ioc \in Range(ToSave), ip_results \in IpResultsChoices(SampleScores) :
        SaveIteration(s, ioc, ip_results)

\* A save_record that appends to the file as it is when it writes.
WriteCsvAppend(s) ==
    /\ pc[s] = "loaded"
    /\ file' = SaveRecordWrite(LoadDf(file), record[s])
    /\ pc' = [pc EXCEPT ![s] = "written"]
    /\ UNCHANGED <<df, record, clock, uuids, call, page>>

\* save_record, after its load: concatenate and rewrite the whole file.
WriteCsv(s) ==
    /\ pc[s] = "loaded"
    /\ file' = SaveRecordWrite(df[s], record[s])
    /\ pc' = [pc EXCEPT ![s] = "written"]
    /\ UNCHANGED <<df, record, clock, uuids, call, page>>

\* save_record has returned; the loop counts the record and goes on.
Return(s) ==
    /\ pc[s] = "written"
    /\ pc' = [pc EXCEPT ![s] = "idle"]
    /\ df' = [df EXCEPT ![s] = NoFrame]
    /\ record' = [record EXCEPT ![s] = NoRecord]
    /\ UNCHANGED <<file, clock, uuids, call, page>>

Next ==
    \/ \E s \in Sessions : ButtonSave(s)
    \/ \E s \in Sessions : AutoSave(s)
    \/ \E s \in Sessions : WriteCsv(s)
    \/ \E s \in Sessions : Return(s)

Spec == Init /\ [][Next]_vars

-----------------------------------------------------------------------------
(* The pure helpers, each applied once to an argument drawn at the start. *)

\* The ordinal scale of likelihood and impact.
Levels == 1 .. 5

\* Rows of tables for build_matrix: every pair of the scale, and rows with
\* a cell that is out of range or no integer.
MatrixRows ==
    {[likelihood |-> PyInt(l), impact |-> PyInt(i)] : l \in Levels, i \in Levels}
    \cup {[likelihood |-> PyInt(3),     impact |-> PyStr("abc")],
          [likelihood |-> PyStr("abc"), impact |-> PyInt(3)],
          [likelihood |-> PyInt(0),     impact |-> PyInt(3)],
          [likelihood |-> PyInt(3),     impact |-> PyInt(6)],
          [likelihood |-> PyStr("3"),   impact |-> PyInt(4)],
          [likelihood |-> PyFloat(37),  impact |-> PyInt(4)],
          [likelihood |-> NaN,          impact |-> PyInt(2)],
          [likelihood |-> None,         impact |-> PyInt(2)],
          [likelihood |-> Inf,          impact |-> PyInt(3)],
          [likelihood |-> PyInt(3),     impact |-> Inf],
          [likelihood |-> PyStr("abc"), impact |-> Inf]}

\* Tables of at most MaxTableRows rows, and tables without an impact column.
Tables ==
    {[cols |-> <<"likelihood", "impact">>, rows |-> rows] :
        rows \in UNION {[1..n -> MatrixRows] : n \in 0..MaxTableRows}}
    \cup {[cols |-> <<"likelihood">>,
           rows |-> [k \in 1..n |-> [likelihood |-> PyInt(3)]]] :
             n \in 1..MaxTableRows}

\* Phrases descriptions are made of.
Phrases ==
    { <<"data", " ", "breach">>, <<"phishing">>, <<"ransomware">>,
      <<"insider", " ", "threat">>, <<"system", " ", "failure">>,
      <<"Ransomware">>, <<"DATA", " ", "Breach">>, <<" ">>, <<"data">>,
      <<"We suffered a", " ">>, <<" ", "attack">>, <<"nothing relevant here">>,
      <<"minor", " ">>, <<" ", "on server">>, <<"spear">> }

RECURSIVE Flatten(_)
Flatten(seqs) ==
    IF seqs = <<>> THEN <<>> ELSE Head(seqs) \o Flatten(Tail(seqs))

\* Descriptions of at most MaxPhrases phrases.
Descriptions ==
    {Flatten(ps) : ps \in UNION {[1..n -> Phrases] : n \in 0..MaxPhrases}}

\* Reputation scores: the documented range 0 to 100 and a margin around it.
MaxAbuseScore == 100
ScoreValues == (0 - ScoreMargin) .. (MaxAbuseScore + ScoreMargin)

\* Scores on both sides of two bucket limits.
LimitScores == {19, 20, 79, 80}

PendingCall(op, arg) == [op |-> op, arg |-> arg, ret |-> <<>>, done |-> FALSE]

\* One pending call of one helper, its argument drawn from the sets above.
PendingCalls(op) ==
    CASE op = "score_risk" ->
             {PendingCall(op, <<l, i>>) : l \in Levels, i \in Levels}
      [] op = "auto_assign" ->
             {PendingCall(op, d) : d \in Descriptions}
      [] op = "build_matrix" ->
             {PendingCall(op, tb) : tb \in Tables}
      [] op = "map_score_to_li_impact" ->
             {PendingCall(op, sc) : sc \in ScoreValues}
      [] op = "choose_li" ->
             {PendingCall(op, <<ioc, rs>>) :
                 ioc \in SelectableIocs, rs \in IpResultsChoices(LimitScores)}

HelperNames ==
    {"score_risk", "auto_assign", "build_matrix", "map_score_to_li_impact",
     "choose_li"}

FnInit ==
    /\ file = NoFile
    /\ pc = [s \in Sessions |-> "idle"]
    /\ df = [s \in Sessions |-> NoFrame]
    /\ record = [s \in Sessions |-> NoRecord]
    /\ clock = 0
    /\ uuids = 0
    /\ page = NoPage
    /\ \E op \in HelperNames : call \in PendingCalls(op)

Returns(op, ret) ==
    /\ call.op = op
    /\ ~call.done
    /\ call' = [call EXCEPT !.ret = ret, !.done = TRUE]
    /\ UNCHANGED <<file, pc, df, record, clock, uuids, page>>

ScoreRiskCall ==
    Returns("score_risk", ScoreRisk(call.arg[1], call.arg[2]))

AutoAssignCall ==
    Returns("auto_assign", AutoAssign(call.arg))

BuildMatrixCall ==
    Returns("build_matrix", BuildMatrix(call.arg))

MapScoreCall ==
    Returns("map_score_to_li_impact", MapScoreToLiImpact(call.arg))

ChooseLikelihoodImpactCall ==
    Returns("choose_li",
            ChooseLikelihoodImpact(call.arg[1][1], call.arg[1][2], call.arg[2]))

FnNext ==
    \/ ScoreRiskCall
    \/ AutoAssignCall
    \/ BuildMatrixCall
    \/ MapScoreCall
    \/ ChooseLikelihoodImpactCall

SpecFn == FnInit /\ [][FnNext]_vars

-----------------------------------------------------------------------------
(* Properties of the store. *)

\* The text row to_csv writes for a record.
RowText(rec) == [c \in Range(rec.cols) |-> FormatCell(rec.cells[c])]

\* The file holds the record's row.
Holds(f, rec) == f.exists /\ RowText(rec) \in Range(f.rows)

IsPrefix(a, b) == Len(a) <= Len(b) /\ SubSeq(b, 1, Len(a)) = a

\* Session s writes, and nothing was written since it loaded: its call of
\* save_record ran without another call in between.
SequentialWrite(s) ==
    /\ pc[s] = "loaded"
    /\ pc'[s] = "written"
    /\ df[s] = LoadDf(file)

(* C1: a save_record call that runs without interleaving leaves the rows    *)
(* persisted before it unchanged and in their order, in the file and in     *)
(* the table load_df gives, and adds exactly one row, the record's, at the  *)
(* end: M rows and N such calls give M + N rows in append order.            *)
C1_SequentialAppend ==
    [][\A s \in Sessions : SequentialWrite(s) =>
          LET before == LoadDf(file).rows
              after  == LoadDf(file').rows
          IN  /\ file'.rows = file.rows \o <<RowText(record[s])>>
              /\ Len(after) = Len(before) + 1
              /\ SubSeq(after, 1, Len(before)) = before
              /\ \A c \in Range(record[s].cols) :
                    FormatCell(after[Len(after)][c])
                        = FormatCell(record[s].cells[c])
      ]_vars

\* Every record built was appended, none lost: MaxSaves sequential calls.
C1_Witness ==
    /\ file.exists
    /\ Len(file.rows) = MaxSaves
    /\ \A s \in Sessions : pc[s] # "loaded"

(* C2: after save_record(r), run without interleaving, the table load_df    *)
(* returns has a row equal to r in every field, and loading, rewriting and  *)
(* loading again gives the same table.                                      *)
C2_RoundTrip ==
    [][\A s \in Sessions : SequentialWrite(s) =>
          LET after == LoadDf(file')
          IN  /\ \E k \in DOMAIN after.rows : after.rows[k] = record[s].cells
              /\ LoadDf(ToCsv(after)) = after
      ]_vars

\* What the call of session s writes, and the rows it loaded, as text.
Output(s)    == SaveRecordWrite(df[s], record[s])
PriorRows(s) == ToCsv(df[s]).rows

(* C3: two save_record calls, both finished.  If both loaded the same prior *)
(* state, the file holds the prior rows and exactly one of the two records; *)
(* if the second loaded what the first wrote, it holds the prior rows and   *)
(* both records, in the order written.                                      *)
C3_LostUpdate ==
    \A a, b \in Sessions :
        (a # b /\ pc[a] = "written" /\ pc[b] = "written") =>
            /\ df[a] = df[b] =>
                  /\ Holds(file, record[a]) # Holds(file, record[b])
                  /\ IsPrefix(PriorRows(a), file.rows)
                  /\ Len(file.rows) = Len(PriorRows(a)) + 1
            /\ df[b] = LoadDf(Output(a)) =>
                  /\ Holds(file, record[a])
                  /\ Holds(file, record[b])
                  /\ file.rows = PriorRows(a)
                        \o <<RowText(record[a]), RowText(record[b])>>

\* Both calls loaded the same non-empty table, both wrote, one record is gone.
C3_Witness ==
    \E a, b \in Sessions :
        /\ a # b
        /\ pc[a] = "written"
        /\ pc[b] = "written"
        /\ df[a] = df[b]
        /\ df[a].rows # <<>>
        /\ Holds(file, record[b])
        /\ ~Holds(file, record[a])

\* Session s loads for save_record and finds no persisted file.
LoadsWithoutFile(s) ==
    /\ pc[s] = "idle"
    /\ pc'[s] = "loaded"
    /\ ~file.exists

\* The column list of the persisted file layout.
LayoutColumns ==
    << "risk_id", "risk_name", "risk_description", "likelihood", "impact",
       "risk_score", "risk_cell", "owner", "mitigation", "attack_type",
       "timestamp" >>

RowConsistent(row) ==
    /\ row.likelihood.t = "int" /\ row.likelihood.n \in 1..5
    /\ row.impact.t = "int" /\ row.impact.n \in 1..5
    /\ row.risk_score = PyInt(row.likelihood.n * row.impact.n)
    /\ row.risk_cell = PyStr(ToString(row.likelihood.n) \o "x"
                             \o ToString(row.impact.n))

StoreConsistent(f) ==
    LET table == LoadDf(f)
        built == BuildMatrix(table)
    IN  /\ \A k \in DOMAIN table.rows : RowConsistent(table.rows[k])
        /\ built.raised = ""
        /\ MatrixSum(built.matrix) = Len(table.rows)

(* C9: every row persisted through the save loops has likelihood and impact *)
(* in 1..5, risk_score their product and risk_cell "<likelihood>x<impact>"; *)
(* a row that stays in the store keeps these fields over every later write; *)
(* and the cells of build_matrix(load_df()) sum to the number of rows.      *)
C9_PersistedRows ==
    [][/\ StoreConsistent(file)
       /\ StoreConsistent(file')
       /\ \A k \in DOMAIN LoadDf(file).rows, j \in DOMAIN LoadDf(file').rows :
             LET old == LoadDf(file).rows[k]
                 new == LoadDf(file').rows[j]
             IN  old.risk_id = new.risk_id =>
                    /\ old.likelihood = new.likelihood
                    /\ old.impact = new.impact
                    /\ old.risk_score = new.risk_score
                    /\ old.risk_cell = new.risk_cell
      ]_vars

\* The store holds a row scored from a reputation result and a default row.
C9_Witness ==
    /\ file.exists
    /\ \E k, j \in DOMAIN file.rows :
          /\ file.rows[k].risk_cell = "5x5"
          /\ file.rows[j].risk_cell = "3x3"
    /\ MatrixSum(BuildMatrix(LoadDf(file)).matrix) = Len(file.rows)

-----------------------------------------------------------------------------
(* Properties of the pure helpers. *)

Returned(op) == call.op = op /\ call.done

\* int() of the row's field gives n.
CoercesTo(row, column, n) == IntOfField(row, column) = Value(n)

(* C4: for every table build_matrix returns a grid whose cell (r, c) counts *)
(* the rows whose likelihood coerces to c + 1 and whose impact coerces to   *)
(* 5 - r; a row with a cell that does not coerce or is out of range changes *)
(* no cell and raises no error.                                             *)
C4_Orientation ==
    Returned("build_matrix") =>
        /\ call.ret.raised = ""
        /\ \A r \in 0..4, c \in 0..4 :
              call.ret.matrix[r][c] =
                  Cardinality({k \in DOMAIN call.arg.rows :
                                 /\ CoercesTo(call.arg.rows[k], "likelihood", c + 1)
                                 /\ CoercesTo(call.arg.rows[k], "impact", 5 - r)})

(* C5: for every table the 25 cells of build_matrix sum to the number of    *)
(* rows whose likelihood and impact are both integers in 1..5, so to at     *)
(* most the number of rows; every cell is a natural number; an empty table  *)
(* gives the 5x5 grid of zeros.                                             *)
C5_SumCountsValidRows ==
    Returned("build_matrix") =>
        /\ call.ret.raised = ""
        /\ DOMAIN call.ret.matrix = 0..4
        /\ \A r \in 0..4 : DOMAIN call.ret.matrix[r] = 0..4
        /\ \A r \in 0..4, c \in 0..4 : call.ret.matrix[r][c] \in Nat
        /\ MatrixSum(call.ret.matrix) =
              Cardinality({k \in DOMAIN call.arg.rows :
                             \E l \in 1..5, i \in 1..5 :
                                /\ CoercesTo(call.arg.rows[k], "likelihood", l)
                                /\ CoercesTo(call.arg.rows[k], "impact", i)})
        /\ MatrixSum(call.ret.matrix) <= Len(call.arg.rows)
        /\ call.arg.rows = <<>> =>
              \A r \in 0..4, c \in 0..4 : call.ret.matrix[r][c] = 0

\* The keyword table in its definition order.
TableOrder ==
    << <<<<"data", " ", "breach">>, <<4, 5>>>>,
       <<<<"phishing">>, <<3, 4>>>>,
       <<<<"ransomware">>, <<5, 5>>>>,
       <<<<"insider", " ", "threat">>, <<3, 4>>>>,
       <<<<"system", " ", "failure">>, <<2, 3>>>> >>

(* C6: auto_assign returns the pair of the first entry of the keyword       *)
(* table, in its definition order, whose phrase occurs in the lower-cased   *)
(* description, wherever the phrases stand in the text, and None exactly    *)
(* when no phrase occurs.                                                   *)
C6_FirstInTableOrder ==
    Returned("auto_assign") =>
        LET desc == Lower(call.arg)
            hits == {k \in DOMAIN TableOrder : Contains(desc, TableOrder[k][1])}
        IN  /\ (hits = {}) <=> (call.ret = <<>>)
            /\ hits # {} =>
                  \E k \in hits : /\ \A j \in hits : k <= j
                                  /\ call.ret = TableOrder[k][2]
            /\ (Contains(desc, <<"ransomware">>)
                  /\ Contains(desc, <<"data", " ", "breach">>))
                    => call.ret = <<4, 5>>
            /\ call.arg = <<"We suffered a", " ", "ransomware", " ", "attack">>
                    => call.ret = <<5, 5>>
            /\ call.arg = <<"minor", " ", "system", " ", "failure", " ", "on server">>
                    => call.ret = <<2, 3>>
            /\ call.arg = <<"nothing relevant here">> => call.ret = <<>>

\* "Ransomware data breach": the later, less severe phrase wins.
C6_Witness ==
    /\ Returned("auto_assign")
    /\ call.arg = <<"Ransomware", " ", "data", " ", "breach">>
    /\ call.ret = <<4, 5>>

(* C7: for likelihood and impact in 1..5 score_risk returns their product,  *)
(* a value in 1..25 that does not decrease when either argument grows, and  *)
(* the call leaves the store as it was.                                     *)
C7_Product ==
    [][(call.op = "score_risk" /\ ~call.done /\ call'.done) =>
          LET l == call.arg[1]
              i == call.arg[2]
          IN  /\ call'.ret = l * i
              /\ call'.ret \in 1..25
              /\ \A m \in Levels : m >= l => ScoreRisk(m, i) >= call'.ret
              /\ \A m \in Levels : m >= i => ScoreRisk(l, m) >= call'.ret
              /\ file' = file
      ]_<<call.op, call.done>>

C7_Witness ==
    /\ Returned("score_risk")
    /\ call.arg = <<4, 5>>
    /\ call.ret = 20

\* The result of ip_results that gives the ip its score, if any.
ScoredResults(ip_results, ip) ==
    {k \in DOMAIN ip_results : ip_results[k].ip = ip /\ ip_results[k].hasScore}

(* C10: map_score_to_li_impact gives (5,5) from 80 up, (4,4) for 60..79,    *)
(* (3,3) for 40..59, (2,2) for 20..39 and (1,1) below; likelihood equals    *)
(* impact, both in 1..5, and neither decreases as the score grows.  In the  *)
(* save loops an IP without a scored result and every other IOC get (3,3),  *)
(* an IP with a scored result the pair of its score.                        *)
C10_ScoreBuckets ==
    /\ Returned("map_score_to_li_impact") =>
          LET score == call.arg
              ret == call.ret
          IN  /\ score >= 80 => ret = <<5, 5>>
              /\ score \in 60..79 => ret = <<4, 4>>
              /\ score \in 40..59 => ret = <<3, 3>>
              /\ score \in 20..39 => ret = <<2, 2>>
              /\ score < 20 => ret = <<1, 1>>
              /\ ret[1] = ret[2] /\ ret[1] \in 1..5
              /\ \A higher \in ScoreValues :
                    higher >= score =>
                        /\ MapScoreToLiImpact(higher)[1] >= ret[1]
                        /\ MapScoreToLiImpact(higher)[2] >= ret[2]
    /\ Returned("choose_li") =>
          LET ioc == call.arg[1]
              scored == ScoredResults(call.arg[2], ioc[2])
          IN  /\ (ioc[1] # "IPs" \/ scored = {}) => call.ret = <<3, 3>>
              /\ (ioc[1] = "IPs" /\ scored # {}) =>
                    \E k \in scored :
                        /\ call.arg[2][k].score >= 80 => call.ret = <<5, 5>>
                        /\ call.arg[2][k].score \in 60..79 => call.ret = <<4, 4>>
                        /\ call.arg[2][k].score \in 40..59 => call.ret = <<3, 3>>
                        /\ call.arg[2][k].score \in 20..39 => call.ret = <<2, 2>>
                        /\ call.arg[2][k].score < 20 => call.ret = <<1, 1>>

\* A score of exactly 80 has been mapped to (5,5).
C10_Witness ==
    /\ Returned("map_score_to_li_impact")
    /\ call.arg = 80
    /\ call.ret = <<5, 5>>

-----------------------------------------------------------------------------
(* app.py: check_abuseipdb, with the reply of the reputation service as an  *)
(* input.                                                                   *)

\* What requests.get and r.json() may give: an exception of the request, or
\* a response with a status code and a body.
Reply(exc, status, body) == [exc |-> exc, status |-> status, body |-> body]

\* A response body: no JSON, a JSON array, or a JSON object whose "data" is
\* absent, null, a text or an object that may hold "abuseConfidenceScore".
Body(json, data, hasScore, score) ==
    [json |-> json, data |-> data, hasScore |-> hasScore, score |-> score]

NoBody == Body("invalid", "absent", FALSE, None)

\* Exceptions requests.get raises.
RequestExceptions == {"ConnectionError", "Timeout"}

\* Classes deriving from Exception, among those the calls here can raise.
ExceptionSubclasses ==
    RequestExceptions \cup
    {"JSONDecodeError", "AttributeError", "ValueError", "TypeError",
     "OverflowError", "KeyError", "IndexError", "APIError", "RateLimitError"}

\* An except clause that names the exceptions of the request only.
ExceptRequestException == RequestExceptions

\* The clause "except Exception" of check_abuseipdb.
ExceptException == ExceptionSubclasses

\* The dictionaries check_abuseipdb returns, by the keys they carry.
ScoredDict(ip, score) ==
    [ip |-> ip,
     keys |-> {"ip", "abuseConfidenceScore", "countryCode", "isp", "domain"},
     abuseConfidenceScore |-> score, error |-> ""]
ErrorDict(ip, tag) ==
    [ip |-> ip, keys |-> {"ip", "error"}, abuseConfidenceScore |-> 0,
     error |-> tag]
NoDict == [ip |-> "", keys |-> {}, abuseConfidenceScore |-> 0, error |-> ""]

\* A call's outcome: the value returned, or the exception that leaves it.
Returning(result) == [raised |-> "", result |-> result]
Raising(exc)      == [raised |-> exc, result |-> NoDict]

\* int(r.json().get("data", {}).get("abuseConfidenceScore", 0)): the
\* integer, or the exception raised on the way.
ScoreOfBody(body) ==
    CASE body.json = "invalid" -> Raise("JSONDecodeError")
      [] body.json = "array"   -> Raise("AttributeError")
      [] body.data = "absent"  -> PythonInt(PyInt(0))
      [] body.data = "object"  ->
             PythonInt(IF body.hasScore THEN body.score ELSE PyInt(0))
      [] OTHER                 -> Raise("AttributeError")   \* null, a text

\* not api_key: None and the empty text are falsy.
Falsy(c) == c.t = "none" \/ (c.t = "str" /\ c.s = "")

\* The try block of check_abuseipdb.
TryCheckAbuseIpdb(ip, reply) ==
    IF reply.exc # "" THEN Raising(reply.exc)
    ELSE IF reply.status = 200
         THEN LET score == ScoreOfBody(reply.body)
              IN  IF score.exc # "" THEN Raising(score.exc)
                  ELSE Returning(ScoredDict(ip, score.n))
         ELSE Returning(ErrorDict(ip, "status_" \o ToString(reply.status)))

CheckAbuseIpdb(ip, api_key, reply) ==
    IF Falsy(api_key) THEN Returning(ErrorDict(ip, "no_api_key"))
    ELSE LET tried == TryCheckAbuseIpdb(ip, reply)
         IN  IF tried.raised \in ExceptException
             THEN Returning(ErrorDict(ip, tried.raised))     \* str(e)
             ELSE tried

-----------------------------------------------------------------------------
(* ai_helper.py: the fallback suggestions and predict_attack_and_mitigation, *)
(* with the reply of the model service as an input.  The symbol each        *)
(* returned text starts with is left out; a text is its sequence of lines.  *)

RiskMitigationSuggestions ==
    << [keyword |-> <<"data", " ", "breach">>,
        suggestions |->
          <<"Implement strong encryption (AES-256) for data at rest and in transit.",
            "Conduct quarterly data access audits.",
            "Use Data Loss Prevention (DLP) systems to monitor data exfiltration.">>],
       [keyword |-> <<"phishing">>,
        suggestions |->
          <<"Conduct employee awareness training every quarter.",
            "Implement an advanced email filtering system.",
            "Enable multi-factor authentication (MFA) for all users.">>],
       [keyword |-> <<"ransomware">>,
        suggestions |->
          <<"Maintain offline backups of critical systems.",
            "Regularly patch and update all endpoints.",
            "Deploy endpoint detection and response (EDR) solutions.">>],
       [keyword |-> <<"insider", " ", "threat">>,
        suggestions |->
          <<"Implement least-privilege access control.",
            "Use behavioral monitoring and anomaly detection tools.",
            "Establish strict offboarding and access revocation processes.">>],
       [keyword |-> <<"system", " ", "failure">>,
        suggestions |->
          <<"Implement redundant failover systems.",
            "Regularly test disaster recovery plans.",
            "Use uptime monitoring and alerting tools.">>] >>

Fallback ==
    <<"Perform regular risk assessments.",
      "Implement least-privilege principles.",
      "Ensure incident response plans are up to date.",
      "Enable continuous monitoring for unusual activity.">>

\* random.sample(population, 3): any three elements at distinct positions,
\* in any order.
Sample3(population) ==
    LET D == DOMAIN population
    IN  {<<population[x[1]], population[x[2]], population[x[3]]>> :
            x \in {y \in D \X D \X D :
                      y[1] # y[2] /\ y[1] # y[3] /\ y[2] # y[3]}}

\* The loop over RISK_MITIGATION_SUGGESTIONS.items(), from entry k on: the
\* lists the call may return.
RECURSIVE SuggestionsFrom(_, _)
SuggestionsFrom(desc, k) ==
    IF k > Len(RiskMitigationSuggestions) THEN Sample3(Fallback)
    ELSE IF Contains(desc, RiskMitigationSuggestions[k].keyword)
         THEN {RiskMitigationSuggestions[k].suggestions}
         ELSE SuggestionsFrom(desc, k + 1)

\* A call returning the first two suggestions only.
GetTwoMitigationSuggestions(risk_description) ==
    {SubSeq(s, 1, 2) : s \in SuggestionsFrom(Lower(risk_description), 1)}

GetMitigationSuggestions(risk_description) ==
    SuggestionsFrom(Lower(risk_description), 1)

\* "\n- ".join(suggestions) after a line ending in "\n- ": one line each.
Bullets(items) == [k \in DOMAIN items |-> "- " \o items[k]]

\* What openai.ChatCompletion.create and the reading of its response may
\* give: an exception, a response with no choice, or the content of the
\* first choice.
ModelReply(exc, choices, content) ==
    [exc |-> exc, choices |-> choices, content |-> content]

\* The content of a choice: its text (raw), and what json.loads makes of
\* it: nothing (no JSON, or a content of None), an array, or an object
\* that may hold "attack_category" and "mitigations".
Content(raw, json, hasCategory, category, mitigations, list) ==
    [raw |-> raw, json |-> json, hasCategory |-> hasCategory,
     category |-> category, mitigations |-> mitigations, list |-> list]

NoContent == Content("", "invalid", FALSE, "", "absent", <<>>)

ReturningText(lines) == [raised |-> "", text |-> lines]
RaisingFromText(exc) == [raised |-> exc, text |-> <<>>]

\* The inner try block: the formatted text, or the exception raised.
TryFormat(content) ==
    CASE content.json = "none"    -> RaisingFromText("TypeError")
      [] content.json = "invalid" -> RaisingFromText("JSONDecodeError")
      [] content.json = "array"   -> RaisingFromText("AttributeError")
      [] content.mitigations = "number" -> RaisingFromText("TypeError")
      [] OTHER ->
           LET attack_type == IF content.hasCategory THEN content.category
                              ELSE "Unknown Threat"
               mitigations == IF content.mitigations = "list"
                              THEN content.list ELSE <<>>
           IN  ReturningText(
                   <<"Predicted Attack Type: **" \o attack_type \o "**", "",
                     "Recommended Mitigations:">>
                   \o (IF mitigations = <<>> THEN <<"">>
                       ELSE Bullets(mitigations)))

\* The outer try block: the text returned, or the exception raised.
TryPredict(reply) ==
    IF reply.exc # "" THEN RaisingFromText(reply.exc)
    ELSE IF reply.choices = 0 THEN RaisingFromText("IndexError")
    ELSE LET formatted == TryFormat(reply.content)
         IN  IF formatted.raised \in ExceptException
             THEN ReturningText(<<"AI Response:", reply.content.raw>>)
             ELSE formatted

\* The outcomes of predict_attack_and_mitigation; ioc_value, ioc_type and
\* abuse_score reach the prompt only.
PredictAttackAndMitigation(api_key, context, reply) ==
    IF Falsy(api_key)
    THEN {ReturningText(<<"[Offline Mode]", "Attack Type: General Threat",
                          "Mitigations:">> \o Bullets(suggestions)) :
             suggestions \in GetMitigationSuggestions(context)}
    ELSE LET tried == TryPredict(reply)
         IN  IF tried.raised \in ExceptException
             THEN {ReturningText(<<"AI Error: " \o tried.raised,
                                   "Fallback Mitigations:">>
                                 \o Bullets(suggestions)) :
                      suggestions \in GetMitigationSuggestions(context)}
             ELSE {tried}

-----------------------------------------------------------------------------
(* The two callers of external services, each applied once to an argument   *)
(* and a reply of its service drawn at the start.                           *)

\* Longest context handed to predict_attack_and_mitigation, in phrases.
MaxContextPhrases == 1

Contexts ==
    {Flatten(ps) : ps \in UNION {[1..n -> Phrases] : n \in 0..MaxContextPhrases}}

\* API keys: none configured, an empty one, a key.
ApiKeys == {None, PyStr(""), PyStr("k3y")}

\* Status codes of the reputation service.
StatusCodes == {200, 403, 429, 500}

\* Values of "abuseConfidenceScore" in a body.
BodyScores ==
    {PyInt(0), PyInt(85), PyInt(100), PyStr("20"), PyStr("abc"), PyFloat(37),
     None, NaN, Inf}

Bodies ==
    {NoBody,
     Body("array", "absent", FALSE, None),
     Body("object", "absent", FALSE, None),
     Body("object", "null", FALSE, None),
     Body("object", "text", FALSE, None),
     Body("object", "object", FALSE, None)}
    \cup {Body("object", "object", TRUE, c) : c \in BodyScores}

Replies ==
    {Reply(e, 0, NoBody) : e \in RequestExceptions}
    \cup {Reply("", st, b) : st \in StatusCodes, b \in Bodies}

Contents ==
    {NoContent,
     Content("None", "none", FALSE, "", "absent", <<>>),
     Content("Likely phishing.", "invalid", FALSE, "", "absent", <<>>),
     Content("[1, 2]", "array", FALSE, "", "absent", <<>>),
     Content("{}", "object", FALSE, "", "absent", <<>>),
     Content("{...}", "object", TRUE, "Phishing", "number", <<>>),
     Content("{...}", "object", TRUE, "Phishing", "list",
             <<"Block the sender.", "Reset passwords.", "Enable MFA.">>),
     Content("{...}", "object", TRUE, "Phishing", "list", <<>>)}

ModelReplies ==
    {ModelReply(e, 0, NoContent) :
        e \in {"APIError", "RateLimitError", "Timeout", "AttributeError"}}
    \cup {ModelReply("", 0, NoContent)}
    \cup {ModelReply("", 1, c) : c \in Contents}

ExtNames == {"check_abuseipdb", "predict_attack_and_mitigation"}

ExtCalls(op) ==
    CASE op = "check_abuseipdb" ->
             {PendingCall(op, [ip |-> ip, api_key |-> key, reply |-> reply]) :
                 ip \in Range(UploadedLog.IPs), key \in ApiKeys,
                 reply \in Replies}
      [] op = "predict_attack_and_mitigation" ->
             {PendingCall(op, [api_key |-> key, context |-> context,
                               reply |-> reply]) :
                 key \in ApiKeys, context \in Contexts,
                 reply \in ModelReplies}

ExtInit ==
    /\ file = NoFile
    /\ pc = [s \in Sessions |-> "idle"]
    /\ df = [s \in Sessions |-> NoFrame]
    /\ record = [s \in Sessions |-> NoRecord]
    /\ clock = 0
    /\ uuids = 0
    /\ page = NoPage
    /\ \E op \in ExtNames : call \in ExtCalls(op)

CheckAbuseIpdbCall ==
    /\ call.op = "check_abuseipdb"
    /\ Returns("check_abuseipdb",
               CheckAbuseIpdb(call.arg.ip, call.arg.api_key, call.arg.reply))

PredictAttackAndMitigationCall ==
    /\ call.op = "predict_attack_and_mitigation"
    /\ \E outcome \in PredictAttackAndMitigation(call.arg.api_key,
                          call.arg.context, call.arg.reply) :
          Returns("predict_attack_and_mitigation", outcome)

ExtNext ==
    \/ CheckAbuseIpdbCall
    \/ PredictAttackAndMitigationCall

SpecExt == ExtInit /\ [][ExtNext]_vars

-----------------------------------------------------------------------------
(* External service failures. *)

\* The suggestion lists the fallback may give for a context: the list of
\* the first table entry whose keyword the lower-cased context holds, else
\* three different entries of the general list in some order.
Suggested(context) ==
    LET hits == {k \in DOMAIN RiskMitigationSuggestions :
                    Contains(Lower(context),
                             RiskMitigationSuggestions[k].keyword)}
    IN  IF hits = {}
        THEN {s \in [1..3 -> Range(Fallback)] :
                 \A a, b \in 1..3 : a # b => s[a] # s[b]}
        ELSE {RiskMitigationSuggestions[
                 CHOOSE k \in hits : \A h \in hits : k <= h].suggestions}

\* A text that ends with the three suggestions of a fallback list, one per
\* line, after the given number of heading lines.
BuiltFromFallback(text, context, headings) ==
    /\ Len(text) = headings + 3
    /\ \E s \in Suggested(context) :
          \A k \in 1..3 : text[headings + k] = "- " \o s[k]

(* C11: check_abuseipdb returns for every outcome of the lookup (no key, a  *)
(* status other than 200, an exception of the request, a malformed body) a  *)
(* dictionary that carries "abuseConfidenceScore" or "error", and raises    *)
(* nothing; predict_attack_and_mitigation returns, for a missing key and    *)
(* for any exception of the model call, a text ending in the three          *)
(* suggestions of the keyword fallback; neither call changes the store.     *)
C11_ExternalFailure ==
    [][(call.op \in ExtNames /\ ~call.done /\ call'.done) =>
          LET arg == call.arg
              out == call'.ret
          IN  /\ file' = file
              /\ out.raised = ""
              /\ call.op = "check_abuseipdb" =>
                   /\ out.result.ip = arg.ip
                   /\ \/ "abuseConfidenceScore" \in out.result.keys
                      \/ "error" \in out.result.keys
                   /\ (\/ Falsy(arg.api_key)
                       \/ arg.reply.exc # ""
                       \/ arg.reply.status # 200
                       \/ arg.reply.body.json # "object"
                       \/ arg.reply.body.data \in {"null", "text"})
                      => /\ "error" \in out.result.keys
                         /\ "abuseConfidenceScore" \notin out.result.keys
              /\ call.op = "predict_attack_and_mitigation" =>
                   /\ Falsy(arg.api_key)
                        => BuiltFromFallback(out.text, arg.context, 3)
                   /\ (~Falsy(arg.api_key)
                       /\ (arg.reply.exc # "" \/ arg.reply.choices = 0))
                        => BuiltFromFallback(out.text, arg.context, 2)
      ]_<<call.op, call.done>>

C11_Witness ==
    /\ Returned("check_abuseipdb")
    /\ ~Falsy(call.arg.api_key)
    /\ call.arg.reply.exc = ""
    /\ call.arg.reply.status = 200
    /\ call.arg.reply.body.score = PyStr("abc")
    /\ call.arg.reply.body.hasScore
    /\ call.ret.raised = ""
    /\ call.ret.result.keys = {"ip", "error"}

-----------------------------------------------------------------------------
(* app.py: the page of one browser session.  Every input of the user makes  *)
(* the script run from the top with the widgets as they are; the button     *)
(* reads True in the one run its press starts; st.experimental_rerun ends   *)
(* the run and starts the next with the same widgets.                       *)

\* Records one page may save in all.
MaxPageSaves == 4

\* Inputs the user makes on the page.
MaxInputs == 3

\* What the multiselects can hold: any part of ToSave, in its order.
Selections == {Without(ToSave, S) : S \in SUBSET Range(ToSave)}

\* A save loop: one record per selected IOC, each handed to save_record,
\* which loads the file, appends and rewrites it.
RECURSIVE SaveLoop(_, _, _, _, _)
SaveLoop(f, to_save, ip_results, uuid, now) ==
    IF to_save = <<>> THEN f
    ELSE LET ioc == Head(to_save)
             li  == ChooseLikelihoodImpact(ioc[1], ioc[2], ip_results)
             rec == CreateRiskRecordFromIoc(ioc[1], ioc[2],
                        Snippet(UploadedLog, ioc[1], ioc[2]),
                        li[1], li[2], uuid + 1, now)
         IN  SaveLoop(SaveRecordWrite(LoadDf(f), rec), Tail(to_save),
                      ip_results, uuid + 1, now + 1)

\* An input of the user: the widgets change and a script run is due.
Input(kind, widgets) ==
    /\ page.inputs < MaxInputs
    /\ page' = [widgets EXCEPT !.run = "running", !.last = kind,
                               !.base = Len(file.rows),
                               !.inputs = page.inputs + 1]
    /\ UNCHANGED <<file, pc, df, record, clock, uuids, call>>

\* The user changes the selection of a multiselect.
Select ==
    \E to_save \in Selections \ {page.to_save} :
        Input("select", [page EXCEPT !.to_save = to_save])

\* The user ticks or clears "Auto-save selected IOCs as risks".
ToggleAutoSave ==
    Input("toggle", [page EXCEPT !.auto_save = ~page.auto_save])

\* The user presses "Save selected IOCs as risks".
ClickSave ==
    Input("click", [page EXCEPT !.clicked = TRUE])

\* A script run that saves every selected IOC and then reruns the page.
SaveAndRerun ==
    /\ uuids + Len(page.to_save) <= MaxPageSaves
    /\ \E ip_results \in IpResultsChoices(SampleScores) :
          file' = SaveLoop(file, page.to_save, ip_results, uuids, clock)
    /\ uuids' = uuids + Len(page.to_save)
    /\ clock' = clock + Len(page.to_save)
    /\ page' = [page EXCEPT !.clicked = FALSE]
    /\ UNCHANGED <<pc, df, record, call>>

\* A run in which the button reads True and something is selected: the
\* button's loop, then st.experimental_rerun().
ButtonRun ==
    /\ page.run = "running"
    /\ page.clicked
    /\ page.to_save # <<>>
    /\ SaveAndRerun

\* A run in which the button reads False, the checkbox is ticked and
\* something is selected: the auto-save loop, then st.experimental_rerun().
AutoRun ==
    /\ page.run = "running"
    /\ ~page.clicked
    /\ page.auto_save
    /\ page.to_save # <<>>
    /\ SaveAndRerun

\* A run that reaches the end of the script: it shows the saved risks and
\* the heatmap and waits for the next input.
Render ==
    /\ page.run = "running"
    /\ ~(page.clicked /\ page.to_save # <<>>)
    /\ ~(page.auto_save /\ page.to_save # <<>>)
    /\ page' = [page EXCEPT !.run = "waiting", !.clicked = FALSE]
    /\ UNCHANGED <<file, pc, df, record, clock, uuids, call>>

UiNext ==
    \/ Select
    \/ ToggleAutoSave
    \/ ClickSave
    \/ ButtonRun
    \/ AutoRun
    \/ Render

SpecUI == Init /\ [][UiNext]_vars

-----------------------------------------------------------------------------
(* One save action, one record per IOC. *)

\* Records appended since the user's last input.
Appended == Len(file.rows) - page.base

\* The last input left a save to do: the button pressed, or the checkbox
\* ticked, with something selected.
SaveAction ==
    /\ page.to_save # <<>>
    /\ page.last = "click" \/ page.auto_save

(* C12: between two inputs of the user the page appends at most one record  *)
(* per selected IOC, and when the page has come to rest after a save action *)
(* (button pressed or auto-save ticked, k IOCs selected) exactly k records  *)
(* have been appended since that input.                                     *)
C12_SavedOnce ==
    /\ Appended <= Len(page.to_save)
    /\ (page.run = "waiting" /\ SaveAction) => Appended = Len(page.to_save)

====
